---- MODULE Spec2Model ----
(***************************************************************************)
(* A model of timewasted/go-server: the listener registry of the Server    *)
(* type (listener.go lines 1-266 with the Server of unnamed/part_004), and *)
(* the earlier package-level variant with detachedListener{Fd,             *)
(* SessionTicketKey} (unnamed/part_005), and the variant whose shutdown    *)
(* signals each listener over channels (listener.go lines 288-430 with     *)
(* server.go).                                                             *)
(*                                                                         *)
(* Server variant.  Caller goroutines (Threads) invoke the Server's        *)
(* methods.  The scans of listeners.serve / shutdown / detach /            *)
(* configureTLS hold the registry's read lock and take one step per        *)
(* listener (each step is atomic because it runs under the listener's      *)
(* stateMutex); the read lock is taken with the first step and released    *)
(* with the last one.  manage / unmanage / reuse run under the write lock, *)
(* so they are single steps that need every reader to be gone.  The        *)
(* goroutines started by the code (accept loops, `go unmanage`, one        *)
(* handler per connection) are actions of their own; listener.Accept is    *)
(* two steps, the return of the embedded Accept and its own return.        *)
(*                                                                         *)
(* Operating system: a table of descriptors, each free or referring to the *)
(* listening socket bound to an address; an address stays in use while a   *)
(* descriptor refers to its socket; a new descriptor is the lowest free    *)
(* one.  A random 32-byte session ticket key is a key no configuration     *)
(* holds.  A listener object nothing refers to any more gives its slot     *)
(* back (Collect, or at once to the object that reuse puts in its place);  *)
(* finalizers of the Go runtime are not modelled, so a descriptor that was *)
(* never closed stays open.                                                *)
(*                                                                         *)
(* Locking.  The registry's RWMutex and each listener's stateMutex and     *)
(* tlsMutex are modelled a second time, one lock operation a step          *)
(* (lkProg, rw): a call is the sequence of RLock / RUnlock / Lock /        *)
(* Unlock operations its code performs, and `go unmanage` starts a         *)
(* goroutine of its own.                                                   *)
(*                                                                         *)
(* The swap-remove of listeners.unmanage is also applied on its own to     *)
(* registries drawn from bounded sets (swIn, swOut).                       *)
(***************************************************************************)
EXTENDS Integers, Sequences, FiniteSets, TLC

\* ------------------------------------------------------------------ bounds
MaxObj == 2     \* listener objects alive at a time
MaxFd == 3      \* size of the descriptor table
MaxConn == 1    \* connections in flight at a time
MaxCerts == 2   \* certificates added to Server.TLS in a run
MaxLis == 2     \* listeners of the signal-channel variant alive at a time
MaxRegistry == 3 \* length of the registries the swap-remove is tried on
MaxEntry == 3    \* listeners that those registries hold

Threads == {"t1", "t2"}
Addrs == {"a1", "a2"}
Objs == 1..MaxObj
Fds == 1..MaxFd
Conns == 1..MaxConn
Lis == 1..MaxLis
Keys == 1..(2 * MaxObj + 1)

\* The zero value of tls.Config.SessionTicketKey: no key generated yet.
NoKey == 0
\* netFD.sysfd of a closed net.Listener
BadFd == -1
\* absent map entry / no object
None == 0

\* ------------------------------------------------- the Server's mutexes
\* the registry's embedded sync.RWMutex, and each listener's stateMutex and
\* tlsMutex
RegLock == [k |-> "reg", o |-> None]
StateLock(o) == [k |-> "state", o |-> o]
TLSLock(o) == [k |-> "tls", o |-> o]
Locks == {RegLock} \cup {StateLock(o) : o \in Objs} \cup {TLSLock(o) : o \in Objs}
\* the goroutines that take them: the callers, the accept loops and the
\* `go l.manager.unmanage(l)` goroutines (of either, one at a time is told
\* apart: the others do the same operations on the same mutexes)
Unmanager == "unmanage"
AcceptLoop == "accept"
Actors == Threads \cup {Unmanager, AcceptLoop}
\* a sync.RWMutex nobody holds or awaits: w is the goroutine inside Lock(),
\* held says whether Lock() has returned, r is who holds it for reading
FreeLock == [w |-> "none", held |-> FALSE, r |-> {}]

VARIABLES
  \* --- Server and its registry
  listeners,       \* listeners.listeners: sequence of listener objects
  wg,              \* the embedded sync.WaitGroup's counter
  tlsCerts,        \* len(Server.TLS.Certificates), 0 while Server.TLS is nil
  reuseListeners,  \* Server.reuseListeners: address -> descriptor (None: absent)
  consumed,        \* the addresses whose entry of reuseListeners a Listen has used
  \* --- listener objects (None in lNet: the slot is free)
  lNet,            \* listener.Listener: the net.Listener it embeds
  lAddr,           \* Addr() of that net.Listener
  lFd,             \* the descriptor of that net.Listener
  lClosed,         \* Close of that net.Listener has run
  lState,          \* listener.state, the set of bits that are set
  lCerts,          \* len(listener.tlsConfig.Certificates)
  lKey,            \* SessionTicketKey of the tls.Config objects
  loop,            \* the goroutine of listener.serve
  unmanaging,      \* `go l.manager.unmanage(l)` goroutines not yet run
  prevKey,         \* the key of the listener whose registry slot reuse gave to this one
  hasPrev,         \* reuse gave this listener the registry slot of another
  scanCloses,      \* times the shutdown scan called Close on the object
  \* --- the operating system
  fdtab,           \* descriptor -> address of the socket it refers to ("free")
  \* --- connections (stage "none": the slot is free)
  cObj,            \* the listener object that accepted it
  cTLS,            \* Accept wrapped it in tls.Server
  cStage,          \* none / accepted / pending / handling
  cPrior,          \* what it was when shutdown was called the last time: none / accepted / handling
  \* --- caller goroutines
  pc,
  idx,             \* position of the thread's scan
  dmap,            \* the map a running detach is building
  detached,        \* the map the last Detach returned
  ret,             \* the error the thread's last Listen / AddTLSCertificate returned
  \* --- package-level variant (managedListeners)
  mListeners,      \* managedListeners.listeners: sequence of listener records
  mWg,             \* managedListeners' WaitGroup counter
  mRecord,         \* the DetachedListeners map the last detach returned
  mPreKey,         \* per address, the listener's key when detach recorded it
  \* --- signal-channel variant (activeListeners)
  aListeners,      \* activeListeners.listeners: sequence of listeners (None: nil entry)
  aWg,             \* activeListeners' WaitGroup counter
  aLi,             \* the listeners: socket, signal channel, goroutines
  aCall,           \* the callers of ListenAndServeTLS / Shutdown / ForceShutdown
  \* --- the Server's mutexes, one lock operation at a time
  lkProg,          \* per goroutine, the lock operations its call has still to do
  rw,              \* per mutex, the writer holding or awaiting it and the read holds
  \* --- the swap-remove of unmanage on its own
  swIn,            \* the registry and the position of the listener found in it
  swOut            \* the registry unmanage leaves

srvVars == <<listeners, wg, tlsCerts, reuseListeners, consumed>>
netVars == <<lNet, lAddr, lFd, lClosed, fdtab>>
objVars == <<lState, lCerts, lKey, loop, unmanaging, prevKey, hasPrev, scanCloses>>
connVars == <<cObj, cTLS, cStage, cPrior>>
thrVars == <<pc, idx, dmap, detached, ret>>
pkgVars == <<mListeners, mWg, mRecord, mPreKey>>
sigVars == <<aListeners, aWg, aLi, aCall>>
lockVars == <<lkProg, rw>>
argVars == <<swIn, swOut>>
vars == <<srvVars, netVars, objVars, connVars, thrVars, pkgVars, sigVars, lockVars, argVars>>

EmptyMap == [a \in Addrs |-> None]

\* absent entry of a DetachedListeners map of *detachedListener
NoRecord == [Fd |-> None, SessionTicketKey |-> NoKey]

\* ------------------------------------------------- helpers on the state
Allocated(o) == lNet[o] # None
FreeObjs == {o \in Objs : lNet[o] = None}

\* listener.Addr(): the embedded net.Listener's address
Addr(o) == lAddr[o]

\* reflect...FieldByName("sysfd"): the descriptor of the embedded listener
SysFd(o) == IF lClosed[o] THEN BadFd ELSE lFd[o]

\* (the bug of assigning the state: the bits a listener had are lost)
setState_Assign(state, bit) == {bit}
\* `listener.state |= bit`, for the bits Serving, Closing and Detached
setState(state, bit) == state \cup {bit}

\* listener.hasState(state), for the bits Serving, Closing and Detached
\* (stateListening is 0: no bit)
hasState(o, bit) == bit \in lState[o]

\* listener.tlsConfigured()
tlsConfigured(o) == lCerts[o] > 0

\* (the bug of assigning the pointer: every listener shares one tls.Config)
tlsConfigOf_Shared(o) == 1
\* the tls.Config object listener.tlsConfig points to: each listener's own,
\* made with the listener and assigned by value (`*l.tlsConfig = *config`)
tlsConfigOf(o) == o

\* listener.tlsConfig.SessionTicketKey
SessionTicketKey(o) == lKey[tlsConfigOf(o)]

FreeFds == {f \in Fds : fdtab[f] = "free"}
LowestFree == CHOOSE f \in FreeFds : \A g \in FreeFds : f <= g

\* the kernel refuses a bind to an address a listening socket already has
AddrInUse(a) == \E f \in Fds : fdtab[f] = a

\* the registry's read lock is held by every thread inside a scan
ScanPcs == {"sv_scan", "sd_scan", "sdf_scan", "dt_scan", "tls_scan"}
Readers == {t \in Threads : pc[t] \in ScanPcs}
\* sync.RWMutex.Lock() succeeds once no reader is left
CanLock == Readers = {}

InRegistry(o) == \E i \in 1..Len(listeners) : listeners[i] = o

\* (the bug of a Wait() that returns whatever the counter is)
Drained_Always(w) == TRUE
\* sync.WaitGroup.Wait() returns when the counter is zero
Drained(w) == w = 0

\* sync.WaitGroup.Done() by anyone: the counter drops, and reaching zero
\* releases every goroutine blocked in Wait()
Released(w) == [t \in Threads |-> IF Drained(w) /\ pc[t] = "sd_wait" THEN "sd_sleep" ELSE pc[t]]

\* crypto/rand fills the key: a key that nothing holds
Fresh(used) == CHOOSE k \in Keys \ used : \A j \in Keys \ used : k <= j
UsedKeys == {lKey[o] : o \in Objs} \cup {prevKey[o] : o \in Objs}
FreshKey == Fresh(UsedKeys)

\* a listener object that nothing refers to: not in the registry, no accept
\* loop, no pending unmanage, no connection of its own
Dead(o) ==
  /\ Allocated(o)
  /\ ~InRegistry(o)
  /\ loop[o] \in {"none", "exited"}
  /\ unmanaging[o] = 0
  /\ \A c \in Conns : cObj[c] # o
Garbage == {o \in Objs : Dead(o)}

\* signal-channel variant: a listener that was not created yet.  addr and
\* open: the net.Listener's address and whether it is open; signal: the
\* messages in the channel `signal` (capacity 1); acc: the goroutine of
\* listener.serve; dial: the goroutine of unblockAccept; backlog: the
\* connection waiting to be accepted
NoListener ==
  [addr |-> "none", open |-> FALSE, signal |-> 0, acc |-> "none", dial |-> "none",
   backlog |-> "empty"]
\* a caller that is in no call: its position, the position of its scan,
\* the argument of shutdown, the error ListenAndServeTLS returned
IdleCall == [pc |-> "idle", idx |-> 0, graceful |-> FALSE, ret |-> "none"]

\* a negative WaitGroup counter and the panic of listener.serve end the process
Panicked == wg < 0 \/ \E o \in Objs : loop[o] = "panicked"
Running == ~Panicked /\ Garbage = {}

\* ------------------------------------------------------------------ Init
\* no registry has been handed to the swap-remove
NoInput == [listeners |-> <<>>, i |-> 0]
NoOutput == [listeners |-> <<>>, isNil |-> FALSE, done |-> FALSE]

\* the state after construction: no listener, no call
Constructed ==
  /\ listeners = <<>>
  /\ wg = 0
  /\ tlsCerts = 0
  /\ reuseListeners = EmptyMap
  /\ consumed = {}
  /\ lNet = [o \in Objs |-> None]
  /\ lAddr = [o \in Objs |-> "none"]
  /\ lFd = [o \in Objs |-> None]
  /\ lClosed = [o \in Objs |-> FALSE]
  /\ lState = [o \in Objs |-> {}]
  /\ lCerts = [o \in Objs |-> 0]
  /\ lKey = [o \in Objs |-> NoKey]
  /\ loop = [o \in Objs |-> "none"]
  /\ unmanaging = [o \in Objs |-> 0]
  /\ prevKey = [o \in Objs |-> NoKey]
  /\ hasPrev = [o \in Objs |-> FALSE]
  /\ scanCloses = [o \in Objs |-> 0]
  /\ fdtab = [f \in Fds |-> "free"]
  /\ cObj = [c \in Conns |-> None]
  /\ cTLS = [c \in Conns |-> FALSE]
  /\ cStage = [c \in Conns |-> "none"]
  /\ cPrior = [c \in Conns |-> "none"]
  /\ pc = [t \in Threads |-> "idle"]
  /\ idx = [t \in Threads |-> 0]
  /\ dmap = [t \in Threads |-> EmptyMap]
  /\ detached = EmptyMap
  /\ ret = [t \in Threads |-> "none"]
  /\ mListeners = <<>>
  /\ mWg = 0
  /\ mRecord = [a \in Addrs |-> NoRecord]
  /\ mPreKey = [a \in Addrs |-> NoKey]
  /\ aListeners = <<>>
  /\ aWg = 0
  /\ aLi = [i \in Lis |-> NoListener]
  /\ aCall = [t \in Threads |-> IdleCall]
  /\ lkProg = [a \in Actors |-> <<>>]
  /\ rw = [l \in Locks |-> FreeLock]

Init == Constructed /\ swIn = NoInput /\ swOut = NoOutput

\* the slot of a collected listener object is as good as new
Collect ==
  /\ Garbage # {}
  /\ lNet' = [o \in Objs |-> IF o \in Garbage THEN None ELSE lNet[o]]
  /\ lAddr' = [o \in Objs |-> IF o \in Garbage THEN "none" ELSE lAddr[o]]
  /\ lFd' = [o \in Objs |-> IF o \in Garbage THEN None ELSE lFd[o]]
  /\ lClosed' = [o \in Objs |-> IF o \in Garbage THEN FALSE ELSE lClosed[o]]
  /\ lState' = [o \in Objs |-> IF o \in Garbage THEN {} ELSE lState[o]]
  /\ lCerts' = [o \in Objs |-> IF o \in Garbage THEN 0 ELSE lCerts[o]]
  /\ lKey' = [o \in Objs |-> IF o \in Garbage THEN NoKey ELSE lKey[o]]
  /\ loop' = [o \in Objs |-> IF o \in Garbage THEN "none" ELSE loop[o]]
  /\ prevKey' = [o \in Objs |-> IF o \in Garbage THEN NoKey ELSE prevKey[o]]
  /\ hasPrev' = [o \in Objs |-> IF o \in Garbage THEN FALSE ELSE hasPrev[o]]
  /\ scanCloses' = [o \in Objs |-> IF o \in Garbage THEN 0 ELSE scanCloses[o]]
  /\ UNCHANGED <<srvVars, fdtab, unmanaging, connVars, thrVars, pkgVars, lockVars, argVars, sigVars>>

\* ------------------------------------------------------ Server.Listen
\* the listener object that manage and reuse build:
\* &listener{Listener: li, manager: l, state: stateListening, tlsConfig: &tls.Config{}}
NewObjects(New, n, a, f) ==
  /\ lNet' = [o \in Objs |-> IF o \in New THEN n ELSE lNet[o]]
  /\ lAddr' = [o \in Objs |-> IF o \in New THEN a ELSE lAddr[o]]
  /\ lFd' = [o \in Objs |-> IF o \in New THEN f ELSE lFd[o]]
  /\ lClosed' = [o \in Objs |-> IF o \in New THEN FALSE ELSE lClosed[o]]
  /\ lState' = [o \in Objs |-> IF o \in New THEN {} ELSE lState[o]]
  /\ lCerts' = [o \in Objs |-> IF o \in New THEN 0 ELSE lCerts[o]]
  /\ lKey' = [o \in Objs |-> IF o \in New THEN NoKey ELSE lKey[o]]

\* WaitGroup.Add(1) that leaves the counter alone
Add_Nothing(w) == w
\* WaitGroup.Add(1)
Add(w) == w + 1

\* listeners.manage: append a new listener object, Add(1)
manage(o) ==
  /\ listeners' = Append(listeners, o)
  /\ wg' = Add(wg)

\* the positions of the registry whose listener has the given address
Matching(a) == {i \in 1..Len(listeners) : Addr(listeners[i]) = a}

\* the j-th smallest element of a set of numbers, and an element's rank
Rank(S, i) == Cardinality({j \in S : j < i}) + 1
Nth(S, r) == CHOOSE i \in S : Rank(S, i) = r

\* a name for a new net.Listener: the first one that no listener object
\* embeds
Nets == 1..(MaxObj + 1)
FreshNet ==
  CHOOSE n \in Nets :
    /\ \A o \in Objs : lNet[o] # n
    /\ \A m \in Nets : (\A o \in Objs : lNet[o] # m) => n <= m

\* listeners.new(addr): bind a socket (fails when the address is in use),
\* then manage the listener
new(a) ==
  LET o == Nth(FreeObjs, 1)
      f == LowestFree IN
  /\ FreeObjs # {}
  /\ ~AddrInUse(a)
  /\ NewObjects({o}, FreshNet, a, f)
  /\ fdtab' = [fdtab EXCEPT ![f] = a]
  /\ manage(o)
  /\ UNCHANGED <<prevKey, hasPrev, loop, scanCloses>>

\* (the bug of taking any descriptor number, open or not)
FileListenerOk_AnyNumber(fd) == fd \in Fds
\* net.FileListener(os.NewFile(fd, ...)) succeeds when fd refers to a socket
FileListenerOk(fd) == fd \in Fds /\ fdtab[fd] # "free"

\* (the bug of handing the replaced listener's configuration on)
reuseKey_CarriedOver(old) == SessionTicketKey(old)
\* the TLS configuration reuse gives the listener that takes a registry slot
\* (tlsConfig: &tls.Config{}): the key of that configuration
reuseKey(old) == NoKey

\* a replaced listener that nothing refers to once it left the registry: its
\* memory is the new listener's
Replaceable(o) ==
  /\ loop[o] \in {"none", "exited"}
  /\ unmanaging[o] = 0
  /\ \A c \in Conns : cObj[c] # o

\* listeners.reuse(fd, addr): duplicate the descriptor into a new
\* net.Listener; every registry entry with that address is replaced by a new
\* listener object around it; with no such entry the listener is managed
reuse(fd, a) ==
  LET f == LowestFree
      M == Matching(a)
      InPlace == {i \in M : Replaceable(listeners[i])}
      Moved == M \ InPlace
      k == IF M = {} THEN 1 ELSE Cardinality(Moved)
      slot(i) == IF i \in InPlace THEN listeners[i] ELSE Nth(FreeObjs, Rank(Moved, i))
      New == IF M = {} THEN {Nth(FreeObjs, 1)} ELSE {slot(i) : i \in M}
      n == FreshNet
      from(o) == listeners[CHOOSE i \in M : slot(i) = o] IN
  /\ Cardinality(FreeObjs) >= k
  /\ lNet' = [o \in Objs |-> IF o \in New THEN n ELSE lNet[o]]
  /\ lAddr' = [o \in Objs |-> IF o \in New THEN fdtab[fd] ELSE lAddr[o]]
  /\ lFd' = [o \in Objs |-> IF o \in New THEN f ELSE lFd[o]]
  /\ lClosed' = [o \in Objs |-> IF o \in New THEN FALSE ELSE lClosed[o]]
  /\ lState' = [o \in Objs |-> IF o \in New THEN {} ELSE lState[o]]
  /\ lCerts' = [o \in Objs |-> IF o \in New THEN 0 ELSE lCerts[o]]
  /\ loop' = [o \in Objs |-> IF o \in New THEN "none" ELSE loop[o]]
  /\ scanCloses' = [o \in Objs |-> IF o \in New THEN 0 ELSE scanCloses[o]]
  /\ fdtab' = [fdtab EXCEPT ![f] = fdtab[fd]]
  /\ IF M = {}
       THEN /\ manage(Nth(FreeObjs, 1))
            /\ lKey' = [o \in Objs |-> IF o \in New THEN NoKey ELSE lKey[o]]
            /\ UNCHANGED <<prevKey, hasPrev>>
       ELSE /\ listeners' = [i \in 1..Len(listeners) |->
                               IF i \in M THEN slot(i) ELSE listeners[i]]
            /\ lKey' = [o \in Objs |-> IF o \in New THEN reuseKey(from(o)) ELSE lKey[o]]
            /\ prevKey' = [o \in Objs |-> IF o \in New THEN SessionTicketKey(from(o)) ELSE prevKey[o]]
            /\ hasPrev' = [o \in Objs |-> IF o \in New THEN TRUE ELSE hasPrev[o]]
            /\ UNCHANGED wg

\* `if fd, exists := s.reuseListeners[addr]; exists`: the addresses whose
\* entry a Listen has built a listener from or closed, this Listen(a) included
Used(used, a) == IF reuseListeners[a] # None THEN used \cup {a} ELSE used

\* Server.Listen(addr)
Listen(t, a) ==
  /\ Running
  /\ pc[t] = "idle"
  /\ CanLock
  /\ FreeFds # {}
  /\ LET fd == reuseListeners[a] IN
       IF fd # None /\ FileListenerOk(fd)
         THEN reuse(fd, a)
         ELSE new(a)   \* syscall.Close(fd) of a descriptor that is not open changes nothing
  /\ consumed' = Used(consumed, a)
  /\ ret' = [ret EXCEPT ![t] = "nil"]
  /\ UNCHANGED <<tlsCerts, reuseListeners, unmanaging, connVars,
                 pc, idx, dmap, detached, pkgVars, lockVars, argVars, sigVars>>

\* Server.Listen(addr) returning the error of net.Listen: reuse was not tried
\* or failed, and the address is bound already
ListenError(t, a) ==
  /\ Running
  /\ pc[t] = "idle"
  /\ LET fd == reuseListeners[a] IN ~(fd # None /\ FileListenerOk(fd))
  /\ AddrInUse(a)
  /\ consumed' = Used(consumed, a)
  /\ ret' = [ret EXCEPT ![t] = "error"]
  /\ UNCHANGED <<listeners, wg, tlsCerts, reuseListeners, netVars, objVars, connVars, pc, idx, dmap, detached, pkgVars, lockVars, argVars, sigVars>>

\* Server.ReuseListeners(listeners): keep the map of a previous Detach
ReuseListeners(t) ==
  /\ Running
  /\ pc[t] = "idle"
  /\ reuseListeners' = detached
  /\ consumed' = {}
  /\ UNCHANGED <<listeners, wg, tlsCerts, netVars, objVars, connVars, thrVars, pkgVars, lockVars, argVars, sigVars>>

\* ------------------------------------------------------------ the scans
\* the position a thread's scan step works on: a thread that is idle takes
\* the read lock and starts at the first listener
At(t) == IF pc[t] = "idle" THEN 1 ELSE idx[t]

\* after the step on position i: on to the next listener, or release the
\* read lock and go on at endpc
Advance(t, i, scanpc, endpc) ==
  IF i < Len(listeners)
    THEN /\ pc' = [pc EXCEPT ![t] = scanpc]
         /\ idx' = [idx EXCEPT ![t] = i + 1]
    ELSE /\ pc' = [pc EXCEPT ![t] = endpc]
         /\ idx' = [idx EXCEPT ![t] = 0]

\* (the bug of closing the descriptor number at every Close)
sysClosed_Again(o) == {lFd[o]}
\* l.Listener.Close(): the descriptors it closes; a net.Listener that is
\* closed returns an error and closes nothing
sysClosed(o) == IF lClosed[o] THEN {} ELSE {lFd[o]}

\* listener.Close(): close the embedded net.Listener (its descriptor is
\* closed by the first Close only) and start `go l.manager.unmanage(l)`
Close(o) ==
  /\ lClosed' = [o2 \in Objs |-> lClosed[o2] \/ (Allocated(o2) /\ lNet[o2] = lNet[o])]
  /\ fdtab' = [f \in Fds |-> IF f \in sysClosed(o) THEN "free" ELSE fdtab[f]]
  /\ unmanaging' = [unmanaging EXCEPT ![o] = @ + 1]

\* `go listener.serve(server)`: one more accept loop for the listener; a
\* second loop on a listener that had one is "doubled"
startLoop(l) == IF l = "none" THEN "running" ELSE "doubled"

\* (the bug of not testing the Closing bit)
serveEligible_NotServing(o) == ~hasState(o, "Serving")
\* (the bug of serving every listener of the registry, whatever its state)
serveEligible_Always(o) == TRUE
\* listeners.serve: `listener.state&(stateServing|stateClosing) == 0`
serveEligible(o) == ~hasState(o, "Serving") /\ ~hasState(o, "Closing")

\* Server.Serve() = listeners.serve(server): one step per listener
Serve(t) ==
  /\ Running
  /\ pc[t] \in {"idle", "sv_scan"}
  /\ Len(listeners) > 0
  /\ LET i == At(t)
         o == listeners[i] IN
       /\ IF serveEligible(o)
            THEN /\ lState' = [lState EXCEPT ![o] = setState(@, "Serving")]
                 /\ loop' = [loop EXCEPT ![o] = startLoop(@)]
            ELSE UNCHANGED <<lState, loop>>
       /\ Advance(t, i, "sv_scan", "idle")
  /\ UNCHANGED <<srvVars, netVars, lCerts, lKey, unmanaging, prevKey, hasPrev,
                 scanCloses, connVars, dmap, detached, ret, pkgVars, lockVars, argVars, sigVars>>

\* (the bug of a further certificate emptying a configuration)
configureTLS_Emptying(o, config) == IF tlsConfigured(o) THEN 0 ELSE config
\* listener.configureTLS(config) with config # nil, `*l.tlsConfig = *config`:
\* the number of certificates the listener's configuration has afterwards
configureTLS(o, config) == config

\* (the policy of configuring listeners that are Detached or not Serving)
tlsEligible_DetachedOrIdle(o) == hasState(o, "Detached") \/ ~hasState(o, "Serving")
\* (the bug of configuring listeners whatever their state)
tlsEligible_Always(o) == TRUE
\* listeners.configureTLS: `listener.state&(stateServing|stateClosing) == 0`
tlsEligible(o) == ~hasState(o, "Serving") /\ ~hasState(o, "Closing")

\* Server.AddTLSCertificate / AddTLSCertificateFromFile with a well-formed
\* key pair: addTLSCert appends to Server.TLS.Certificates, then
\* listeners.configureTLS copies *Server.TLS into every eligible listener
\* (Server.TLS itself never serves, so its SessionTicketKey is the zero key)
AddTLSCertificate(t) ==
  /\ Running
  /\ \/ /\ pc[t] = "idle"
        /\ tlsCerts < MaxCerts
        /\ tlsCerts' = tlsCerts + 1
     \/ /\ pc[t] = "tls_scan"
        /\ tlsCerts' = tlsCerts
  /\ IF Len(listeners) = 0
       THEN UNCHANGED <<lCerts, lKey, pc, idx>>
       ELSE LET i == At(t)
                o == listeners[i] IN
            /\ IF tlsEligible(o)
                 THEN /\ lCerts' = [lCerts EXCEPT ![o] = configureTLS(o, tlsCerts')]
                      /\ lKey' = [lKey EXCEPT ![tlsConfigOf(o)] = NoKey]
                 ELSE UNCHANGED <<lCerts, lKey>>
            /\ Advance(t, i, "tls_scan", "idle")
  /\ ret' = IF pc'[t] = "idle" THEN [ret EXCEPT ![t] = "nil"] ELSE ret
  /\ UNCHANGED <<listeners, wg, reuseListeners, consumed, netVars, lState, loop, unmanaging,
                 prevKey, hasPrev, scanCloses, connVars, dmap, detached, pkgVars, lockVars, argVars, sigVars>>

\* (the bug of not testing the Closing bit)
shutdownEligible_Always(o) == TRUE
\* listeners.shutdown: `listener.state&stateClosing == 0`
shutdownEligible(o) == ~hasState(o, "Closing")

\* (the bugs of never waiting, and of waiting whatever `graceful` is)
AfterScan_NoWait(graceful) == IF graceful THEN "sd_sleep" ELSE "sdf_sleep"
AfterScan_AlwaysWait(graceful) == "sd_prewait"
\* listeners.shutdown after the scan: `if graceful { l.Wait() }`
AfterScan(graceful) == IF graceful THEN "sd_prewait" ELSE "sdf_sleep"

\* what a connection is to a call of shutdown: not there, accepted but not
\* inside ServeHTTP, or with its handler inside ServeHTTP
Prior(stage) == IF stage \in {"accepted", "pending"} THEN "accepted" ELSE stage

\* Server.Shutdown() = listeners.shutdown(true) and Server.ForceShutdown() =
\* listeners.shutdown(false): the scan, one step per listener
shutdown(t, graceful) ==
  /\ Running
  /\ pc[t] \in {"idle", IF graceful THEN "sd_scan" ELSE "sdf_scan"}
  /\ IF Len(listeners) = 0
       THEN /\ pc' = [pc EXCEPT ![t] = AfterScan(graceful)]
            /\ UNCHANGED <<idx, lState, scanCloses, lClosed, fdtab, unmanaging>>
       ELSE LET i == At(t)
                o == listeners[i] IN
            /\ IF shutdownEligible(o)
                 THEN /\ lState' = [lState EXCEPT ![o] = setState(@, "Closing")]
                      /\ scanCloses' = [scanCloses EXCEPT ![o] = @ + 1]
                      /\ Close(o)
                 ELSE UNCHANGED <<lState, scanCloses, lClosed, fdtab, unmanaging>>
            /\ Advance(t, i, IF graceful THEN "sd_scan" ELSE "sdf_scan", AfterScan(graceful))
  /\ cPrior' = IF pc[t] = "idle" THEN [c \in Conns |-> Prior(cStage[c])] ELSE cPrior
  /\ UNCHANGED <<srvVars, lNet, lAddr, lFd, lCerts, lKey, loop, prevKey, hasPrev,
                 cObj, cTLS, cStage, dmap, detached, ret, pkgVars, lockVars, argVars, sigVars>>

Shutdown(t) == shutdown(t, TRUE)
ForceShutdown(t) == shutdown(t, FALSE)

\* l.Wait(): returns at once when the counter is zero, blocks otherwise
Wait(t) ==
  /\ Running
  /\ pc[t] = "sd_prewait"
  /\ pc' = [pc EXCEPT ![t] = IF Drained(wg) THEN "sd_sleep" ELSE "sd_wait"]
  /\ UNCHANGED <<srvVars, netVars, objVars, connVars, idx, dmap, detached, ret, pkgVars, lockVars, argVars, sigVars>>

\* time.Sleep(100 * time.Millisecond) is over and shutdown returns
ShutdownReturn(t) ==
  /\ Running
  /\ pc[t] \in {"sd_sleep", "sdf_sleep"}
  /\ pc' = [pc EXCEPT ![t] = "idle"]
  /\ UNCHANGED <<srvVars, netVars, objVars, connVars, idx, dmap, detached, ret, pkgVars, lockVars, argVars, sigVars>>

\* (the bug of marking listeners that are Closing as well)
detachEligible_Always(o) == TRUE
\* listeners.detach: `listener.state&stateClosing == 0`
detachEligible(o) == ~hasState(o, "Closing")

\* the entry detach records for a listener
detachEntry(o) == SysFd(o)

\* Server.Detach() = listeners.detach(): one step per listener; the map is
\* returned with the last step
Detach(t) ==
  /\ Running
  /\ pc[t] \in {"idle", "dt_scan"}
  /\ IF Len(listeners) = 0
       THEN /\ detached' = EmptyMap
            /\ UNCHANGED <<lState, dmap, pc, idx>>
       ELSE LET i == At(t)
                o == listeners[i]
                m == IF detachEligible(o)
                       THEN [dmap[t] EXCEPT ![Addr(o)] = detachEntry(o)]
                       ELSE dmap[t] IN
            /\ lState' = IF detachEligible(o)
                           THEN [lState EXCEPT ![o] = setState(@, "Detached")]
                           ELSE lState
            /\ IF i < Len(listeners)
                 THEN dmap' = [dmap EXCEPT ![t] = m] /\ detached' = detached
                 ELSE dmap' = [dmap EXCEPT ![t] = EmptyMap] /\ detached' = m
            /\ Advance(t, i, "dt_scan", "idle")
  /\ UNCHANGED <<srvVars, netVars, lCerts, lKey, loop, unmanaging, prevKey, hasPrev,
                 scanCloses, connVars, ret, pkgVars, lockVars, argVars, sigVars>>

\* ------------------------------------------------ goroutines of the code
\* (the bug of never finding the listener: no removal, no Done())
Found_Never(o) == FALSE
\* (the bug of calling Done() whether or not the listener was found)
Found_Always(o) == TRUE
\* listeners.unmanage: `if li == listener` for some entry
Found(o) == InRegistry(o)

\* (the bug of reading the last entry after nil was assigned to it)
SwapRemove_LateRead(s, i) == [j \in 1..(Len(s) - 1) |-> IF j = i THEN None ELSE s[j]]
\* (the bug of dropping the last entry, whichever entry was found)
SwapRemove_DropLast(s, i) == SubSeq(s, 1, Len(s) - 1)
\* the swap-remove of listeners.unmanage
SwapRemove(s, i) == [j \in 1..(Len(s) - 1) |-> IF j = i THEN s[Len(s)] ELSE s[j]]

\* `go l.manager.unmanage(l)`: under the write lock, remove the listener
\* if it is present and call Done()
unmanage(o) ==
  /\ Running
  /\ unmanaging[o] > 0
  /\ CanLock
  /\ unmanaging' = [unmanaging EXCEPT ![o] = @ - 1]
  /\ IF Found(o)
       THEN /\ listeners' = IF InRegistry(o)
                              THEN SwapRemove(listeners, CHOOSE i \in 1..Len(listeners) : listeners[i] = o)
                              ELSE listeners
            /\ wg' = wg - 1
            /\ pc' = Released(wg - 1)
       ELSE UNCHANGED <<listeners, wg, pc>>
  /\ UNCHANGED <<tlsCerts, reuseListeners, consumed, netVars, lState, lCerts, lKey, loop,
                 prevKey, hasPrev, scanCloses, connVars, idx, dmap, detached, ret, pkgVars, lockVars, argVars, sigVars>>

\* the accept loop of o is between the return of l.Listener.Accept() and the
\* return of listener.Accept()
Returning(o) == \E c \in Conns : cObj[c] = o /\ cStage[c] = "accepted"

\* listener.Accept(), `c, err = l.Listener.Accept()` with err == nil: the
\* blocked call returns a connection of the open socket
NetAccept(o) ==
  /\ Running
  /\ loop[o] = "running"
  /\ ~Returning(o)
  /\ ~lClosed[o]
  /\ \E c \in Conns :
       /\ cStage[c] = "none"
       /\ \A c2 \in Conns : cStage[c2] = "none" => c <= c2
       /\ cObj' = [cObj EXCEPT ![c] = o]
       /\ cStage' = [cStage EXCEPT ![c] = "accepted"]
       /\ cPrior' = [cPrior EXCEPT ![c] = "none"]
  /\ UNCHANGED <<srvVars, netVars, objVars, cTLS, thrVars, pkgVars, lockVars, argVars, sigVars>>

\* (the bug of returning every connection as it is)
wrapsTLS_Never(o) == FALSE
\* listener.Accept: `if l.tlsConfigured() { c = tls.Server(c, l.tlsConfig) }`
wrapsTLS(o) == tlsConfigured(o)

\* listener.Accept() returns the connection to http.Serve, wrapped by
\* tls.Server when tlsConfigured() holds at that moment; http.Serve starts
\* the connection's goroutine.  The listener's state is not looked at
AcceptConn(c) ==
  /\ Running
  /\ cStage[c] = "accepted"
  /\ cTLS' = [cTLS EXCEPT ![c] = wrapsTLS(cObj[c])]
  /\ cStage' = [cStage EXCEPT ![c] = "pending"]
  /\ UNCHANGED <<srvVars, netVars, objVars, cObj, cPrior, thrVars, pkgVars, lockVars, argVars, sigVars>>

\* listener.Accept() fails because the net.Listener is closed: the error is
\* errShutdownRequested when the state has the Closing bit, and
\* listener.serve panics otherwise; http.Serve closes the listener on return
AcceptError(o) ==
  /\ Running
  /\ loop[o] = "running"
  /\ ~Returning(o)
  /\ lClosed[o]
  /\ loop' = [loop EXCEPT ![o] = IF hasState(o, "Closing") THEN "exited" ELSE "panicked"]
  /\ Close(o)
  /\ UNCHANGED <<srvVars, lNet, lAddr, lFd, lState, lCerts, lKey, prevKey, hasPrev,
                 scanCloses, connVars, thrVars, pkgVars, lockVars, argVars, sigVars>>

\* the connection's goroutine reaches Server.ServeHTTP: the first handshake
\* of a tls.Server connection fills a zero SessionTicketKey with random
\* bytes; ServeHTTP calls Add(1)
ServeHTTPBegin(c) ==
  /\ Running
  /\ cStage[c] = "pending"
  /\ cStage' = [cStage EXCEPT ![c] = "handling"]
  /\ wg' = Add(wg)
  /\ lKey' = IF cTLS[c] /\ SessionTicketKey(cObj[c]) = NoKey
               THEN [lKey EXCEPT ![tlsConfigOf(cObj[c])] = FreshKey]
               ELSE lKey
  /\ UNCHANGED <<listeners, tlsCerts, reuseListeners, consumed, netVars, lState, lCerts, loop,
                 unmanaging, prevKey, hasPrev, scanCloses, cObj, cTLS, cPrior, thrVars, pkgVars, lockVars, argVars, sigVars>>

\* the handler returns: the deferred Done(); the connection is over
ServeHTTPEnd(c) ==
  /\ Running
  /\ cStage[c] = "handling"
  /\ cStage' = [cStage EXCEPT ![c] = "none"]
  /\ cObj' = [cObj EXCEPT ![c] = None]
  /\ cTLS' = [cTLS EXCEPT ![c] = FALSE]
  /\ cPrior' = [cPrior EXCEPT ![c] = "none"]
  /\ wg' = wg - 1
  /\ pc' = Released(wg - 1)
  /\ UNCHANGED <<listeners, tlsCerts, reuseListeners, consumed, netVars, objVars,
                 idx, dmap, detached, ret, pkgVars, lockVars, argVars, sigVars>>

\* the goroutines of the registry: accept loops ending and `go unmanage`
Registry ==
  \/ Collect
  \/ \E o \in Objs : unmanage(o)
  \/ \E o \in Objs : AcceptError(o)

\* connections and their handlers
Connections ==
  \/ \E o \in Objs : NetAccept(o)
  \/ \E c \in Conns : AcceptConn(c)
  \/ \E c \in Conns : ServeHTTPBegin(c)
  \/ \E c \in Conns : ServeHTTPEnd(c)

\* goroutine t calls Listen, Serve, Shutdown and ForceShutdown
Lifecycle(t) ==
  \/ \E a \in Addrs : Listen(t, a)
  \/ Serve(t)
  \/ Shutdown(t)
  \/ ForceShutdown(t)
  \/ Wait(t)
  \/ ShutdownReturn(t)

\* goroutine t hands listeners over: Listen, Serve, Detach, ReuseListeners, Shutdown
Handover(t) ==
  \/ \E a \in Addrs : Listen(t, a)
  \/ Serve(t)
  \/ Detach(t)
  \/ ReuseListeners(t)
  \/ Shutdown(t)
  \/ Wait(t)
  \/ ShutdownReturn(t)

\* goroutine t serves TLS: Listen, AddTLSCertificate, Serve, Detach, ReuseListeners
Secure(t) ==
  \/ \E a \in Addrs : Listen(t, a)
  \/ AddTLSCertificate(t)
  \/ Serve(t)
  \/ Detach(t)
  \/ ReuseListeners(t)

\* goroutine t detaches listeners of a Server that is being shut down
Detaching(t) ==
  \/ \E a \in Addrs : Listen(t, a)
  \/ Serve(t)
  \/ Detach(t)
  \/ Shutdown(t)
  \/ ForceShutdown(t)
  \/ Wait(t)
  \/ ShutdownReturn(t)

\* goroutine t configures the Server: Listen, AddTLSCertificate, Detach
Certifying(t) ==
  \/ \E a \in Addrs : Listen(t, a)
  \/ AddTLSCertificate(t)
  \/ Detach(t)

\* goroutine t serves and shuts down: Serve, Shutdown
Operating(t) ==
  \/ Serve(t)
  \/ Shutdown(t)
  \/ Wait(t)
  \/ ShutdownReturn(t)

\* goroutine t serves, detaches and shuts down: Serve, Detach, Shutdown
Starting(t) ==
  \/ Serve(t)
  \/ Detach(t)
  \/ Shutdown(t)
  \/ Wait(t)
  \/ ShutdownReturn(t)

\* goroutine t listens again after a shutdown, with the map of a Detach,
\* on addresses that may be bound
Rebinding(t) ==
  \/ \E a \in Addrs : Listen(t, a)
  \/ \E a \in Addrs : ListenError(t, a)
  \/ Detach(t)
  \/ ReuseListeners(t)
  \/ Shutdown(t)
  \/ Wait(t)
  \/ ShutdownReturn(t)

\* one goroutine drives the Server through its life cycle
Next == Lifecycle("t1") \/ Registry \/ Connections
Spec == Init /\ [][Next]_vars

\* two goroutines drive the Server concurrently
NextConc == (\E t \in Threads : Lifecycle(t)) \/ Registry \/ Connections
SpecConc == Init /\ [][NextConc]_vars

\* no goroutine of an earlier call has work left: no unmanage is pending and
\* no accept loop has its failing Accept before it
Quiet == \A o \in Objs : unmanaging[o] = 0 /\ (loop[o] = "running" => ~lClosed[o])

\* one goroutine detaches and reuses listeners; it makes its next call once
\* the goroutines of the earlier ones are done, and they run freely during
\* a call
NextReuse == ((Quiet \/ pc["t1"] # "idle") /\ Handover("t1")) \/ Registry
SpecReuse == Init /\ [][NextReuse]_vars

\* one goroutine detaches, reuses and shuts down the listeners of one
\* address, gracefully or not, while connections arrive and handlers run
Rejoining(t) ==
  \/ Listen(t, "a1")
  \/ Serve(t)
  \/ Detach(t)
  \/ ReuseListeners(t)
  \/ Shutdown(t)
  \/ ForceShutdown(t)
  \/ Wait(t)
  \/ ShutdownReturn(t)
NextJoin ==
  \/ (Quiet \/ pc["t1"] # "idle") /\ Rejoining("t1")
  \/ Registry
  \/ Connections
SpecJoin == Init /\ [][NextJoin]_vars

\* one goroutine does everything that scans the registry: it serves,
\* detaches, adds certificates and shuts down, gracefully or not
Scanning(t) ==
  \/ \E a \in Addrs : Listen(t, a)
  \/ AddTLSCertificate(t)
  \/ Serve(t)
  \/ Detach(t)
  \/ Shutdown(t)
  \/ ForceShutdown(t)
  \/ Wait(t)
  \/ ShutdownReturn(t)
NextScan == Scanning("t1") \/ Registry
SpecScan == Init /\ [][NextScan]_vars

\* one goroutine detaches listeners, also after ForceShutdown has returned
\* with listeners still in the registry
NextDetach == Detaching("t1") \/ Registry
SpecDetach == Init /\ [][NextDetach]_vars

\* one goroutine adds certificates while another one serves and shuts down
NextCert == Certifying("t1") \/ Operating("t2") \/ Registry
SpecCert == Init /\ [][NextCert]_vars

\* one goroutine listens; both serve, detach and shut down concurrently
NextServe == (\E a \in Addrs : Listen("t1", a)) \/ (\E t \in Threads : Starting(t)) \/ Registry
SpecServe == Init /\ [][NextServe]_vars

\* one goroutine listens and adds certificates while another one serves and
\* connections arrive; nothing is shut down
NextWrap ==
  \/ \E a \in Addrs : Listen("t1", a)
  \/ AddTLSCertificate("t1")
  \/ Serve("t2")
  \/ Connections
SpecWrap == Init /\ [][NextWrap]_vars

\* one goroutine calls Listen, Serve, Detach, Shutdown and ForceShutdown while
\* connections arrive.  The Go scheduler runs every goroutine that can run:
\* a call that has begun goes on, the accept loops, the unmanage goroutines
\* and the connections' goroutines take their steps, and handlers return
NextLive == Detaching("t1") \/ Registry \/ Connections
Fairness ==
  /\ WF_vars(pc["t1"] # "idle" /\ Detaching("t1"))
  /\ WF_vars(Collect)
  /\ \A o \in Objs : WF_vars(unmanage(o)) /\ WF_vars(AcceptError(o))
  /\ \A c \in Conns : WF_vars(AcceptConn(c)) /\ WF_vars(ServeHTTPBegin(c)) /\ WF_vars(ServeHTTPEnd(c))
SpecLive == Init /\ [][NextLive]_vars /\ Fairness

\* one goroutine listens with inherited descriptors, valid and stale ones;
\* nothing is served, so no accept loop runs
NextListen == Rebinding("t1") \/ Collect \/ \E o \in Objs : unmanage(o)
SpecListen == Init /\ [][NextListen]_vars

\* one goroutine serves TLS and reuses listeners; nothing is shut down, so no
\* accept loop ends, no unmanage is started and no listener object is dropped
\* but the ones reuse replaces
NextTLS == Secure("t1") \/ Connections
SpecTLS == Init /\ [][NextTLS]_vars

\* ------------------------------------------------------------------------
\* The package-level variant (unnamed/part_005): managedListeners, with
\* detachedListener{Fd, SessionTicketKey}.  A listener is a record: the
\* address and descriptor of its net.Listener, whether that is closed, its
\* state bits, the SessionTicketKey of its tlsConfig, and whether it was
\* made by newListenerFromFd.
mKeys ==
  {mListeners[i].key : i \in 1..Len(mListeners)}
    \cup {mRecord[a].SessionTicketKey : a \in Addrs} \cup {mPreKey[a] : a \in Addrs}

\* listeners.manage(li)
mManage(li) ==
  /\ mListeners' = Append(mListeners, li)
  /\ mWg' = mWg + 1

\* newListener(addr, tlsConfig): bind, then manage
newListener(a, key) ==
  /\ ~AddrInUse(a)
  /\ fdtab' = [fdtab EXCEPT ![LowestFree] = a]
  /\ mManage([addr |-> a, fd |-> LowestFree, closed |-> FALSE, state |-> {}, key |-> key,
              fromFd |-> FALSE])

\* newListenerFromFd(fd, addr, tlsConfig): net.FileListener duplicates the
\* descriptor; manage
newListenerFromFd(fd, a, key) ==
  /\ FileListenerOk(fd)
  /\ fdtab' = [fdtab EXCEPT ![LowestFree] = fdtab[fd]]
  /\ mManage([addr |-> fdtab[fd], fd |-> LowestFree, closed |-> FALSE, state |-> {},
              key |-> key, fromFd |-> TRUE])

\* HTTPS(addrs, keyPairs, existingListeners), one address of it: a listener
\* is rebuilt from the address's record with the recorded key in its
\* tlsConfig, and is bound anew, with a new tlsConfig, without a usable record
HTTPS(a, existing) ==
  /\ Len(mListeners) < MaxObj
  /\ FreeFds # {}
  /\ IF existing /\ mRecord[a] # NoRecord /\ FileListenerOk(mRecord[a].Fd)
       THEN newListenerFromFd(mRecord[a].Fd, a, mRecord[a].SessionTicketKey)
       ELSE newListener(a, NoKey)
  /\ UNCHANGED <<srvVars, lNet, lAddr, lFd, lClosed, objVars, connVars, thrVars, sigVars, lockVars, argVars,
                 mRecord, mPreKey>>

\* listeners.serve(): `go li.serve()` for every listener neither Closing nor Serving
mServe ==
  /\ mListeners' = [i \in 1..Len(mListeners) |->
                      IF mListeners[i].state \cap {"Closing", "Serving"} = {}
                        THEN [mListeners[i] EXCEPT !.state = @ \cup {"Serving"}]
                        ELSE mListeners[i]]
  /\ mListeners' # mListeners
  /\ UNCHANGED <<srvVars, netVars, objVars, connVars, thrVars, sigVars, lockVars, argVars, mWg, mRecord, mPreKey>>

\* the first handshake of a connection of a serving listener fills a zero
\* SessionTicketKey with random bytes
mHandshake(i) ==
  /\ i \in 1..Len(mListeners)
  /\ "Serving" \in mListeners[i].state
  /\ ~mListeners[i].closed
  /\ mListeners[i].key = NoKey
  /\ mListeners' = [mListeners EXCEPT ![i].key = Fresh(mKeys)]
  /\ UNCHANGED <<srvVars, netVars, objVars, connVars, thrVars, sigVars, lockVars, argVars, mWg, mRecord, mPreKey>>

\* listeners.detach: `li.state&stateClosing != 0` is skipped
mDetachEligible(li) == "Closing" \notin li.state

\* (the bug of leaving the key out of the record)
detachedListener_NoKey(li) ==
  [Fd |-> IF li.closed THEN BadFd ELSE li.fd, SessionTicketKey |-> NoKey]
\* &detachedListener{Fd: sysfd, SessionTicketKey: li.tlsConfig.SessionTicketKey}
detachedListener(li) ==
  [Fd |-> IF li.closed THEN BadFd ELSE li.fd, SessionTicketKey |-> li.key]

\* the listeners detach records under an address: a later one overwrites
Recorded(a) == {i \in 1..Len(mListeners) : mListeners[i].addr = a /\ mDetachEligible(mListeners[i])}
LastOf(S) == CHOOSE i \in S : \A j \in S : j <= i

\* listeners.detach(): the map of the records, and the Detached bit
mDetach ==
  /\ mRecord' = [a \in Addrs |-> IF Recorded(a) = {} THEN NoRecord
                                  ELSE detachedListener(mListeners[LastOf(Recorded(a))])]
  /\ mPreKey' = [a \in Addrs |-> IF Recorded(a) = {} THEN NoKey
                                  ELSE mListeners[LastOf(Recorded(a))].key]
  /\ mListeners' = [i \in 1..Len(mListeners) |->
                      IF mDetachEligible(mListeners[i])
                        THEN [mListeners[i] EXCEPT !.state = @ \cup {"Detached"}]
                        ELSE mListeners[i]]
  /\ UNCHANGED <<srvVars, netVars, objVars, connVars, thrVars, sigVars, lockVars, argVars, mWg>>

\* listeners.shutdown(graceful), the scan: every listener that is not Closing
\* gets the bit and is closed (the descriptor of its net.Listener is freed)
mShutdown ==
  /\ \E i \in 1..Len(mListeners) : mDetachEligible(mListeners[i])
  /\ mListeners' = [i \in 1..Len(mListeners) |->
                      IF "Closing" \notin mListeners[i].state
                        THEN [mListeners[i] EXCEPT !.state = @ \cup {"Closing"}, !.closed = TRUE]
                        ELSE mListeners[i]]
  /\ fdtab' = [f \in Fds |->
                 IF \E i \in 1..Len(mListeners) :
                      /\ "Closing" \notin mListeners[i].state
                      /\ ~mListeners[i].closed
                      /\ mListeners[i].fd = f
                   THEN "free" ELSE fdtab[f]]
  /\ UNCHANGED <<srvVars, lNet, lAddr, lFd, lClosed, objVars, connVars, thrVars, sigVars, lockVars, argVars,
                 mWg, mRecord, mPreKey>>

\* `go managedListeners.unmanage(l)` of a closed listener: swap-remove, Done()
mUnmanage(i) ==
  /\ i \in 1..Len(mListeners)
  /\ mListeners[i].closed
  /\ mListeners' = SwapRemove(mListeners, i)
  /\ mWg' = mWg - 1
  /\ UNCHANGED <<srvVars, netVars, objVars, connVars, thrVars, sigVars, lockVars, argVars, mRecord, mPreKey>>

NextPkg ==
  \/ \E a \in Addrs, existing \in BOOLEAN : HTTPS(a, existing)
  \/ mServe
  \/ \E i \in 1..MaxObj : mHandshake(i)
  \/ mDetach
  \/ mShutdown
  \/ \E i \in 1..MaxObj : mUnmanage(i)

SpecPkg == Init /\ [][NextPkg]_vars

\* ------------------------------------------------------------------------
\* The signal-channel variant (listener.go lines 288-430 with the
\* package-level functions of server.go): activeListeners.  Accept looks
\* at the channel `signal` before it blocks in the net.Listener's Accept;
\* shutdown sends on `signal` and on `unblock`, and unblockAccept then
\* dials the listener to get Accept out of the block.  Handlers are left out.
aPanicked == \E i \in Lis : aLi[i].acc = "panicked"
\* activeListeners' mutex is held by shutdown from its first to its last step
aLocked == \E t \in Threads : aCall[t].pc \in {"signal", "unblock"}
\* net.Listen fails on an address that one of the listeners is bound to
aBound(a) == \E i \in Lis : aLi[i].open /\ aLi[i].addr = a
\* a listener nothing refers to any more: its slot can be taken again
aFree(i) ==
  /\ \A j \in 1..Len(aListeners) : aListeners[j] # i
  /\ aLi[i].acc \in {"none", "exited"}
  /\ aLi[i].dial \in {"none", "done"}
aFreeSlots == {i \in Lis : aFree(i)}

\* the addresses ListenAndServeTLS gets through: the loop `for _, addr :=
\* range addrs` stops at the first address net.Listen fails on
RECURSIVE Bindable(_, _)
Bindable(addrs, taken) ==
  IF addrs = <<>> \/ aBound(Head(addrs)) \/ Head(addrs) \in taken
    THEN <<>>
    ELSE <<Head(addrs)>> \o Bindable(Tail(addrs), taken \cup {Head(addrs)})

\* newListener(addr, tlsConfig) after net.Listen succeeded, and `go
\* li.serve()`: serve starts `go l.unblockAccept()` and enters http.Serve
Created(a) ==
  [addr |-> a, open |-> TRUE, signal |-> 0, acc |-> "select", dial |-> "recv",
   backlog |-> "empty"]

\* the sequences of addresses a call may be given
AddrSeqs == {<<a>> : a \in Addrs} \cup {<<a, b>> : a, b \in Addrs}

\* ListenAndServeTLS(addrs, serverName, certFile, keyFile) with a key pair
\* that loads: newListener and `go li.serve()` per address, until one fails
ListenAndServeTLS(t, addrs) ==
  LET kept == Bindable(addrs, {})   \* `return err` closes none of them
      slot(j) == Nth(aFreeSlots, j)
      made == {slot(j) : j \in 1..Len(kept)} IN
  /\ ~aPanicked
  /\ aCall[t].pc = "idle"
  /\ ~aLocked
  /\ Cardinality(aFreeSlots) >= Len(addrs)
  /\ aLi' = [i \in Lis |->
               IF i \in made
                 THEN Created(kept[CHOOSE j \in 1..Len(kept) : slot(j) = i])
                 ELSE aLi[i]]
  /\ aListeners' = aListeners \o [j \in 1..Len(kept) |-> slot(j)]
  /\ aWg' = aWg + Len(kept)
  /\ aCall' = [aCall EXCEPT ![t].ret =
                 IF Len(kept) = Len(addrs) THEN "nil" ELSE "error"]
  /\ UNCHANGED <<srvVars, netVars, objVars, connVars, thrVars, pkgVars, lockVars, argVars>>

\* Shutdown() / ForceShutdown() = activeListeners.shutdown(graceful): take
\* the mutex; with no listener, unlock and Wait at once
activeShutdown(t, graceful) ==
  /\ ~aPanicked
  /\ aCall[t].pc = "idle"
  /\ ~aLocked
  /\ aCall' = [aCall EXCEPT ![t] =
                 IF Len(aListeners) > 0
                   THEN [@ EXCEPT !.pc = "signal", !.idx = 1, !.graceful = graceful]
                   ELSE [@ EXCEPT !.pc = IF graceful THEN "wait" ELSE "idle",
                                  !.graceful = graceful]]
  /\ UNCHANGED <<srvVars, netVars, objVars, connVars, thrVars, pkgVars, lockVars, argVars,
                 aListeners, aWg, aLi>>

\* `li.signal <- signalShutdown`: blocks while the channel is full
sendSignal(t) ==
  LET i == aListeners[aCall[t].idx] IN
  /\ ~aPanicked
  /\ aCall[t].pc = "signal"
  /\ aLi[i].signal = 0
  /\ aLi' = [aLi EXCEPT ![i].signal = 1]
  /\ aCall' = [aCall EXCEPT ![t].pc = "unblock"]
  /\ UNCHANGED <<srvVars, netVars, objVars, connVars, thrVars, pkgVars, lockVars, argVars, aListeners, aWg>>

\* `li.unblock <- signalShutdown`: blocks until unblockAccept receives; when
\* not graceful, `li.Close(); l.listeners[i] = nil; l.Done()`; after the last
\* listener `l.listeners = nil` when not graceful, unlock, and Wait when graceful
sendUnblock(t) ==
  LET c == aCall[t]
      i == aListeners[c.idx]
      last == c.idx = Len(aListeners) IN
  /\ ~aPanicked
  /\ c.pc = "unblock"
  /\ aLi[i].dial = "recv"
  /\ aLi' = [aLi EXCEPT ![i].dial = "dialing",
                        ![i].open = IF c.graceful THEN @ ELSE FALSE]
  /\ aWg' = IF c.graceful THEN aWg ELSE aWg - 1
  /\ aListeners' = IF last /\ ~c.graceful THEN <<>> ELSE aListeners
  /\ aCall' = [aCall EXCEPT ![t].pc = IF ~last THEN "signal"
                                       ELSE IF c.graceful THEN "wait" ELSE "idle",
                            ![t].idx = IF last THEN 0 ELSE c.idx + 1]
  /\ UNCHANGED <<srvVars, netVars, objVars, connVars, thrVars, pkgVars, lockVars, argVars>>

\* l.Wait() returns when the counter is zero
activeWait(t) ==
  /\ ~aPanicked
  /\ aCall[t].pc = "wait"
  /\ aWg = 0
  /\ aCall' = [aCall EXCEPT ![t].pc = "idle"]
  /\ UNCHANGED <<srvVars, netVars, objVars, connVars, thrVars, pkgVars, lockVars, argVars, aListeners, aWg, aLi>>

\* listener.Accept, the select: with a signal, l.close() closes the
\* net.Listener and goes on to unwatch; without, Accept blocks in
\* l.Listener.Accept()
activeAccept(i) ==
  /\ ~aPanicked
  /\ aLi[i].acc = "select"
  /\ aLi' = IF aLi[i].signal = 1
              THEN [aLi EXCEPT ![i].signal = 0, ![i].open = FALSE, ![i].acc = "unwatch"]
              ELSE [aLi EXCEPT ![i].acc = "blocked"]
  /\ UNCHANGED <<srvVars, netVars, objVars, connVars, thrVars, pkgVars, lockVars, argVars, aListeners, aWg, aCall>>

\* activeListeners.unwatch(l) in l.close(): swap-remove and Done() when the
\* listener is found; Accept then returns errShutdownRequested, serve
\* returns, and its deferred l.close() finds nothing left to do
unwatch(i) ==
  LET at == {j \in 1..Len(aListeners) : aListeners[j] = i} IN
  /\ ~aPanicked
  /\ aLi[i].acc = "unwatch"
  /\ ~aLocked
  /\ IF at # {}
       THEN /\ aListeners' = SwapRemove(aListeners, CHOOSE j \in at : TRUE)
            /\ aWg' = aWg - 1
       ELSE UNCHANGED <<aListeners, aWg>>
  /\ aLi' = [aLi EXCEPT ![i].acc = "exited"]
  /\ UNCHANGED <<srvVars, netVars, objVars, connVars, thrVars, pkgVars, lockVars, argVars, aCall>>

\* l.Listener.Accept() returns the waiting connection, and Accept hands it
\* to http.Serve, which calls Accept again
acceptReturns(i) ==
  /\ ~aPanicked
  /\ aLi[i].acc = "blocked"
  /\ aLi[i].open
  /\ aLi[i].backlog # "empty"
  /\ aLi' = [aLi EXCEPT ![i].backlog = "empty", ![i].acc = "select"]
  /\ UNCHANGED <<srvVars, netVars, objVars, connVars, thrVars, pkgVars, lockVars, argVars, aListeners, aWg, aCall>>

\* l.Listener.Accept() fails because the net.Listener was closed under it:
\* the error is not errShutdownRequested, and serve panics
acceptFails(i) ==
  /\ ~aPanicked
  /\ aLi[i].acc = "blocked"
  /\ ~aLi[i].open
  /\ aLi' = [aLi EXCEPT ![i].acc = "panicked"]
  /\ UNCHANGED <<srvVars, netVars, objVars, connVars, thrVars, pkgVars, lockVars, argVars, aListeners, aWg, aCall>>

\* unblockAccept after `sig := <-l.unblock`: tls.Dial to the listener's
\* address, Close, and return because sig is signalShutdown
unblockAccept(i) ==
  /\ ~aPanicked
  /\ aLi[i].dial = "dialing"
  /\ aLi' = [aLi EXCEPT ![i].dial = "done",
                        ![i].backlog = IF aLi[i].open /\ @ = "empty" THEN "dummy" ELSE @]
  /\ UNCHANGED <<srvVars, netVars, objVars, connVars, thrVars, pkgVars, lockVars, argVars, aListeners, aWg, aCall>>

\* a client connects to the listener's address
clientConnects(i) ==
  /\ ~aPanicked
  /\ aLi[i].open
  /\ aLi[i].backlog = "empty"
  /\ aLi' = [aLi EXCEPT ![i].backlog = "client"]
  /\ UNCHANGED <<srvVars, netVars, objVars, connVars, thrVars, pkgVars, lockVars, argVars, aListeners, aWg, aCall>>

\* one caller starts and shuts down; the goroutines of the listeners run
NextSig ==
  \/ \E addrs \in AddrSeqs : ListenAndServeTLS("t1", addrs)
  \/ \E graceful \in BOOLEAN : activeShutdown("t1", graceful)
  \/ sendSignal("t1")
  \/ sendUnblock("t1")
  \/ activeWait("t1")
  \/ \E i \in Lis : activeAccept(i)
  \/ \E i \in Lis : unwatch(i)
  \/ \E i \in Lis : acceptReturns(i)
  \/ \E i \in Lis : acceptFails(i)
  \/ \E i \in Lis : unblockAccept(i)
  \/ \E i \in Lis : clientConnects(i)
SpecSig == Init /\ [][NextSig]_vars

\* a second goroutine calls Shutdown and ForceShutdown as well
NextSigTwice ==
  \/ NextSig
  \/ \E graceful \in BOOLEAN : activeShutdown("t2", graceful)
  \/ sendSignal("t2")
  \/ sendUnblock("t2")
  \/ activeWait("t2")
SpecSigTwice == Init /\ [][NextSigTwice]_vars

\* ================================================================ claims
\* the caller of the one-caller specifications
Caller == "t1"

\* slot o holds the same listener object before and after the step (a new
\* object has a new net.Listener)
Persists(o) == Allocated(o) /\ lNet'[o] = lNet[o]

\* the step with which a graceful / a forced shutdown returns to its caller
GracefulReturns == pc[Caller] = "sd_sleep" /\ pc'[Caller] = "idle"
ForcedReturns == pc[Caller] = "sdf_sleep" /\ pc'[Caller] = "idle"

\* the accept loop of listener o is blocked in Accept on an open socket
Accepting(o) == loop[o] = "running" /\ ~lClosed[o]

\* C1: once the graceful Shutdown has returned, no accept loop of the
\* process is accepting on the socket of an address the registry managed
\* (stated for the return step: at that step no listener object is accepting)
C1_NoAcceptAfterShutdown ==
  [][GracefulReturns => \A o \in Objs : ~Accepting(o)']_vars

\* a connection accepted before the shutdown whose handler is pending or running
InFlight(c) == cPrior[c] # "none" /\ cStage[c] \in {"pending", "handling"}

\* C2: the graceful Shutdown does not return while a connection accepted
\* before the shutdown has its handler pending or running
C2_GracefulWaitsForAccepted ==
  [][GracefulReturns => \A c \in Conns : ~InFlight(c)']_vars

\* C3: Shutdown is idempotent: with any number of calls, one after another
\* or concurrent, nothing panics, the shutdown scan closes no listener more
\* than once, and the WaitGroup's counter never falls below zero
C3_ShutdownIdempotent ==
  /\ ~Panicked
  /\ wg >= 0
  /\ \A o \in Objs : scanCloses[o] <= 1

\* two calls of Shutdown are past their scans over a listener that is still
\* registered: one of them closed it, the other found it Closing
C3_Witness ==
  /\ pc["t1"] \in {"sd_prewait", "sd_wait"}
  /\ pc["t2"] \in {"sd_prewait", "sd_wait"}
  /\ \E o \in Objs : InRegistry(o) /\ scanCloses[o] = 1 /\ loop[o] = "running"

\* the handlers inside ServeHTTP
Handling == {c \in Conns : cStage[c] = "handling"}

\* C4: when the graceful Shutdown returns (nobody calls Listen meanwhile) the
\* registry is empty: every listener was removed and its Done() has happened,
\* so the counter holds the running handlers only
C4_RegistryEmptyOnReturn ==
  pc[Caller] = "sd_sleep" => listeners = <<>> /\ wg = Cardinality(Handling)

\* Wait() has returned after a listener that was serving was shut down
C4_Witness ==
  /\ pc[Caller] = "sd_sleep"
  /\ \E o \in Objs : scanCloses[o] = 1 /\ loop[o] = "exited" /\ ~InRegistry(o)

\* C5: ForceShutdown never waits on the WaitGroup: every step of it leads on
\* in the scan or to the final sleep, and from there it returns whatever the
\* counter, the handlers and the pending unmanage calls are
C5_ForceNeverWaits ==
  /\ [][ForceShutdown(Caller) => pc'[Caller] \in {"sdf_scan", "sdf_sleep"}]_vars
  /\ [](pc[Caller] = "sdf_sleep" /\ Running => ENABLED ShutdownReturn(Caller))

\* the forced shutdown is about to return while a handler runs and the
\* unmanage of a registered listener has not run
C5_Witness ==
  /\ pc[Caller] = "sdf_sleep"
  /\ wg > 1
  /\ Handling # {}
  /\ \E o \in Objs : InRegistry(o) /\ unmanaging[o] > 0

\* C6: after ForceShutdown has returned, no connection accepted earlier is
\* still open with its handler running
C6_ForceSeversConnections ==
  [][ForcedReturns => \A c \in Conns : ~(InFlight(c) /\ c \in Handling)']_vars

\* the TLS-enabled listeners of the registry
TLSListeners == {o \in Objs : InRegistry(o) /\ tlsConfigured(o)}

RebuildsFrom(a) ==
  /\ mRecord[a] # NoRecord
  /\ FileListenerOk(mRecord[a].Fd)
  /\ HTTPS(a, TRUE)

\* C8: round trip through the handoff record (package-level variant): the
\* record detach made for an address carries the key the listener had, and
\* the listener rebuilt from the record has that same key
C8_HandoffKeepsKey ==
  [][\A a \in Addrs : RebuildsFrom(a) =>
       /\ mRecord[a].SessionTicketKey = mPreKey[a]
       /\ mListeners'[Len(mListeners')].key = mPreKey[a]]_vars

\* a listener rebuilt from a record holds the generated key that the
\* address's listener had when it was detached
C8_Witness ==
  \E i \in 1..Len(mListeners) :
    /\ mListeners[i].fromFd
    /\ mListeners[i].key # NoKey
    /\ mListeners[i].key = mPreKey[mListeners[i].addr]

\* C9: a listener that reuse put in the place of another is a new object
\* with an empty TLS configuration (no key before certificates are added
\* again and it serves), and the key it then gets differs from the key the
\* address had before Detach
C9_KeyRegeneratedAfterReuse ==
  \A o \in Objs : hasPrev[o] =>
    /\ ~tlsConfigured(o) => SessionTicketKey(o) = NoKey
    /\ SessionTicketKey(o) # NoKey => SessionTicketKey(o) # prevKey[o]

\* a reattached listener serves TLS with a key of its own, and the address
\* had a key before
C9_Witness ==
  \E o \in Objs :
    /\ hasPrev[o] /\ InRegistry(o) /\ hasState(o, "Serving")
    /\ prevKey[o] # NoKey
    /\ SessionTicketKey(o) # NoKey

\* the step with which Detach returns its map
DetachReturns ==
  /\ pc[Caller] \in {"idle", "dt_scan"}
  /\ Detach(Caller)
  /\ pc'[Caller] = "idle"

\* the registry's listeners that are not Closing
NotClosing == {i \in 1..Len(listeners) : ~hasState(listeners[i], "Closing")}

\* C10: the map Detach returns has exactly one entry per registry listener
\* that is not Closing, under the listener's address, holding the listener's
\* descriptor
C10_DetachMapExact ==
  [][DetachReturns =>
       /\ \A i \in NotClosing : detached'[Addr(listeners[i])] = SysFd(listeners[i])
       /\ \A a \in Addrs : detached'[a] # None => \E i \in NotClosing : Addr(listeners[i]) = a
       /\ Cardinality({a \in Addrs : detached'[a] # None}) = Cardinality(NotClosing)]_vars

\* C11: a step of Detach changes nothing but the Detached bit, which it adds
\* to listeners of the registry that are not Closing: the registry, the
\* WaitGroup counter, sockets and descriptors, accept loops, the other state
\* bits, the TLS configurations and the reuse map stay as they are; when
\* Detach returns, every registry listener that is not Closing is Detached
C11_DetachFrame ==
  [][Detach(Caller) =>
       /\ UNCHANGED <<listeners, wg, tlsCerts, reuseListeners, netVars, lCerts, lKey,
                      loop, unmanaging, connVars>>
       /\ \A o \in Objs :
            /\ lState'[o] \ {"Detached"} = lState[o] \ {"Detached"}
            /\ lState[o] \subseteq lState'[o]
            /\ hasState(o, "Closing") => lState'[o] = lState[o]
            /\ ~InRegistry(o) => lState'[o] = lState[o]
       /\ DetachReturns =>
            \A j \in NotClosing : "Detached" \in lState'[listeners[j]]]_vars

\* Detach has returned on a registry of two listeners, one Closing and one
\* serving: only the serving one is Detached and recorded, its socket is
\* open and its loop still runs
C11_Witness ==
  /\ pc[Caller] = "idle"
  /\ Len(listeners) = 2
  /\ wg = 2
  /\ \E j \in 1..2 : /\ hasState(listeners[j], "Closing")
                     /\ ~hasState(listeners[j], "Detached")
  /\ \E j \in 1..2 : /\ hasState(listeners[j], "Detached")
                     /\ hasState(listeners[j], "Serving")
                     /\ loop[listeners[j]] = "running"
                     /\ ~lClosed[listeners[j]]
                     /\ detached[Addr(listeners[j])] = SysFd(listeners[j])
  /\ Cardinality({a \in Addrs : detached[a] # None}) = 1

\* C12: a descriptor recorded in the map Detach returned is a duplicate: no
\* listener object has it as its own descriptor, and it refers to an open
\* listening socket on the address it is recorded under, also after the
\* listener's own socket was closed by Shutdown or ForceShutdown
C12_RecordedDescriptorIsDuplicate ==
  \A a \in Addrs :
    detached[a] # None =>
      /\ \A o \in Objs : Allocated(o) => lFd[o] # detached[a]
      /\ detached[a] \in Fds
      /\ fdtab[detached[a]] = a

\* C13: a listener that is Detached is out of the registry's scope: no step
\* starts its accept loop, marks it Closing or closes its socket
C13_DetachedOutOfScope ==
  [][\A o \in Objs :
       Allocated(o) /\ hasState(o, "Detached") =>
         /\ loop'[o] = "running" => loop[o] = "running"
         /\ hasState(o, "Closing")' => hasState(o, "Closing")
         /\ lClosed'[o] => lClosed[o]]_vars

\* C14: no step changes the certificates in the TLS configuration of a
\* listener that is Serving or Closing, also when AddTLSCertificate runs
\* while another goroutine is in Serve or Shutdown
C14_ServingConfigFrozen ==
  [][\A o \in Objs :
       /\ Persists(o)
       /\ hasState(o, "Serving") \/ hasState(o, "Closing")
       => lCerts'[o] = lCerts[o]]_vars

\* the first AddTLSCertificate has configured the first listener and is on
\* its way to the second; Serve, called meanwhile, has started both: the
\* first serves TLS, the second will be passed over and serves without
C14_Witness ==
  /\ tlsCerts = 1
  /\ pc["t1"] = "tls_scan"
  /\ idx["t1"] = 2
  /\ Len(listeners) = 2
  /\ hasState(listeners[1], "Serving") /\ lCerts[listeners[1]] = 1
  /\ hasState(listeners[2], "Serving") /\ lCerts[listeners[2]] = 0

\* the step with which AddTLSCertificate returns
AddTLSCertificateReturns ==
  /\ pc["t1"] \in {"idle", "tls_scan"}
  /\ AddTLSCertificate("t1")
  /\ pc'["t1"] = "idle"

\* C15: AddTLSCertificate, called while a listener of the registry is Serving
\* or Closing, returns an error
C15_AddWhileServingFails ==
  [][AddTLSCertificateReturns
       /\ (\E o \in Objs : InRegistry(o) /\ (hasState(o, "Serving") \/ hasState(o, "Closing")))
     => ret'["t1"] = "error"]_vars

Scanned == listeners[At("t1")]
\* the step gives listener o the certificates of Server.TLS
Enables(o) == lCerts'[o] = tlsCerts' /\ lCerts[o] < tlsCerts'

C18_CounterIsRegistrySize == wg = Len(listeners)

\* C18 amended: the WaitGroup counter is the number of listeners in the
\* registry plus the number of requests inside Server.ServeHTTP
C18_CounterIsListenersPlusHandlers == wg = Len(listeners) + Cardinality(Handling)

\* a request is being handled while Shutdown waits and the registry is
\* empty already: the counter is 1
C18_Witness ==
  /\ pc[Caller] = "sd_wait"
  /\ listeners = <<>>
  /\ Cardinality(Handling) = 1
  /\ wg = 1

\* the registry's listeners that are active: neither Closing nor Detached
Active == {i \in 1..Len(listeners) :
             ~hasState(listeners[i], "Closing") /\ ~hasState(listeners[i], "Detached")}

\* C19: no two active listeners of the registry have the same address
C19_OneActivePerAddress ==
  \A i, j \in Active : Addr(listeners[i]) = Addr(listeners[j]) => i = j

\* Listen(a) returns, with or without an error
ListenReturns(a) == Listen(Caller, a) \/ ListenError(Caller, a)
\* the step binds a fresh socket on address a
Binds(a) == ~AddrInUse(a) /\ \E f \in Fds : fdtab[f] = "free" /\ fdtab'[f] = a

StartFails == \E addrs \in AddrSeqs : ListenAndServeTLS(Caller, addrs) /\ aCall'[Caller].ret = "error"

\* C21: when ListenAndServeTLS returns an error, no listener the call
\* created is in the registry or serves: registry, counter and listeners
\* are as they were before the call
C21_NoPartialStart ==
  [][StartFails => UNCHANGED <<aListeners, aWg, aLi>>]_vars

\* C22: no accept loop takes the fatal branch of listener.serve: an Accept
\* that fails because the registry closed the socket finds the Closing bit
\* set, so no loop is ever in the state "panicked"
C22_ShutdownNeverPanics == \A o \in Objs : loop[o] # "panicked"

\* C25: listener.Accept never returns a connection to http.Serve while the
\* listener's state has the Closing bit
C25_NoConnectionWhileClosing ==
  [][\A c \in Conns : AcceptConn(c) => ~hasState(cObj[c], "Closing")]_vars

\* C24: once the shutdown signal of a listener was sent, the connection that
\* gets its Accept out of the block (the dial of unblockAccept or a client)
\* is not returned to http.Serve
C24_UnblockingConnectionDropped ==
  [][\A i \in Lis : acceptReturns(i) => aLi[i].signal = 0]_vars

\* a step of Serve by goroutine t over listener o
Serves(t, o) == Serve(t) /\ listeners[At(t)] = o

\* C23: an accept loop is started only for a listener that never had one
\* and is neither Serving nor Closing, so no listener has two loops and no
\* loop that ended starts again; and every step of Serve over a listener
\* that is neither Serving nor Closing starts its loop
C23_LoopStartedOnce ==
  [][\A o \in Objs :
       /\ loop'[o] # "doubled"
       /\ (Allocated(o) /\ loop'[o] = "running" /\ loop[o] # "running") =>
            /\ loop[o] = "none"
            /\ ~hasState(o, "Serving") /\ ~hasState(o, "Closing")
            /\ \E t \in Threads : Serves(t, o)
       /\ \A t \in Threads :
            (Serves(t, o) /\ ~hasState(o, "Serving") /\ ~hasState(o, "Closing")) =>
              loop[o] = "none" /\ loop'[o] = "running" /\ hasState(o, "Serving")']_vars

\* two calls of Serve are inside their scans at once, both past the first
\* listener, whose loop runs; the second listener is Detached and waits
C23_Witness ==
  /\ pc["t1"] = "sv_scan" /\ pc["t2"] = "sv_scan"
  /\ idx["t1"] = 2 /\ idx["t2"] = 2
  /\ loop[listeners[1]] = "running"
  /\ hasState(listeners[2], "Detached") /\ loop[listeners[2]] = "none"

\* the Close of listener.serve's exit path, on a listener the shutdown scan
\* has closed
SecondClose(o) == AcceptError(o) /\ scanCloses[o] = 1

\* C26: a descriptor is closed only by a Close of a listener whose socket is
\* open, which closes this socket; and the Close that follows the shutdown
\* scan's Close changes no socket, no descriptor, no listener state, not the
\* registry and not the counter (it starts one more unmanage, see C27)
C26_CloseIdempotent ==
  [][/\ \A f \in Fds :
          (fdtab[f] # "free" /\ fdtab'[f] = "free") =>
             \E o \in Objs : Allocated(o) /\ lFd[o] = f /\ ~lClosed[o] /\ lClosed'[o]
     /\ \A o \in Objs :
          SecondClose(o) =>
            /\ UNCHANGED <<fdtab, lClosed, lState, lFd, listeners, wg>>
            /\ unmanaging'[o] = unmanaging[o] + 1]_vars

\* a listener was closed by the scan of ForceShutdown and again by its accept
\* loop, after the descriptor number had gone to a socket bound since: the
\* number is in use, and both unmanage calls are pending
C26_Witness ==
  \E o \in Objs :
    /\ loop[o] = "exited" /\ scanCloses[o] = 1
    /\ unmanaging[o] = 2
    /\ fdtab[lFd[o]] # "free"

\* the listeners of the registry other than o, as a bag
Others(reg, o) == [o2 \in Objs \ {o} |-> Cardinality({i \in 1..Len(reg) : reg[i] = o2})]

\* C27: unmanage(l) with l in the registry removes l, keeps every other
\* entry and lowers the counter by one; with l absent it leaves registry and
\* counter alone; and a listener object that left the registry never enters
\* it again, so all the unmanage calls for one object lower the counter once
C27_UnmanageOnce ==
  [][\A o \in Objs :
       /\ unmanage(o) =>
            IF InRegistry(o)
              THEN /\ wg' = wg - 1
                   /\ Len(listeners') = Len(listeners) - 1
                   /\ \A i \in 1..Len(listeners') : listeners'[i] # o
                   /\ Others(listeners', o) = Others(listeners, o)
              ELSE UNCHANGED <<listeners, wg>>
       /\ (~InRegistry(o) /\ \E i \in 1..Len(listeners') : listeners'[i] = o) => ~Allocated(o)]_vars

\* both the shutdown scan and the accept loop closed a listener, and both
\* unmanage calls have run: the listener is gone, the other listener is in
\* the registry, and the counter is one
C27_Witness ==
  /\ Len(listeners) = 1 /\ wg = 1
  /\ \E o \in Objs :
       /\ Allocated(o) /\ ~InRegistry(o)
       /\ scanCloses[o] = 1 /\ loop[o] = "exited" /\ unmanaging[o] = 0

\* C28 as stated: every listener has at most one of the bits Serving,
\* Closing and Detached
C28_StatesExclusive == \A o \in Objs : Cardinality(lState[o]) <= 1

\* C28: the bits of a listener's state accumulate: a step adds at most one
\* bit to a listener and takes none away (a state without bits after the
\* step is a new listener object's)
C28_StatesAccumulate ==
  [][\A o \in Objs :
       \/ lState'[o] = {}
       \/ /\ lState[o] \subseteq lState'[o]
          /\ Cardinality(lState'[o] \ lState[o]) <= 1]_vars

\* a listener that was served, detached and then shut down has the three bits
C28_Witness ==
  \E o \in Objs : InRegistry(o) /\ lState[o] = {"Serving", "Closing", "Detached"}

\* the map of the Detach in progress before and after a step of it
DetachMapBefore == dmap[Caller]
DetachMapAfter == IF pc'[Caller] = "idle" THEN detached' ELSE dmap'[Caller]

\* C29: a step of Detach over a listener that an earlier Detach marked
\* Detached adds nothing to the map: the entry of the listener's address
\* stays as it was
C29_DetachSkipsDetached ==
  [][(Detach(Caller) /\ Len(listeners) > 0 /\ hasState(listeners[At(Caller)], "Detached")) =>
       DetachMapAfter[Addr(listeners[At(Caller)])] = DetachMapBefore[Addr(listeners[At(Caller)])]]_vars

\* C30: the connection listener.Accept returns is wrapped by tls.Server
\* exactly when the listener has a certificate, and whether a listener has
\* one does not change while its accept loop runs, so all the connections
\* of a listener are of one kind
C30_WrappedIffConfigured ==
  [][/\ \A c \in Conns : AcceptConn(c) => (cTLS'[c] <=> tlsConfigured(cObj[c]))
     /\ \A o \in Objs :
          (Persists(o) /\ loop[o] = "running") => (tlsConfigured(o)' <=> tlsConfigured(o))]_vars

\* Server.TLS has two certificates; a listener that was configured with the
\* first and then served has returned a TLS connection and was passed over
\* by the second AddTLSCertificate, and a listener that served before any
\* certificate reached it serves without TLS
C30_Witness ==
  /\ tlsCerts = 2
  /\ \E c \in Conns :
       /\ cStage[c] \in {"pending", "handling"}
       /\ cTLS[c] /\ lCerts[cObj[c]] = 1
  /\ \E o \in Objs : loop[o] = "running" /\ ~tlsConfigured(o)

\* the caller is inside a graceful Shutdown / a Serve / a Detach
InShutdown == pc[Caller] \in {"sd_scan", "sd_prewait", "sd_wait", "sd_sleep"}
InServe == pc[Caller] = "sv_scan"
InDetach == pc[Caller] = "dt_scan"

\* C31: with goroutines scheduled fairly and handlers that return, a
\* graceful Shutdown that has begun returns, whatever the states of the
\* listeners (the caller is outside Shutdown again and again); a call of Serve or Detach never waits: its next step is
\* enabled whatever the counter is, and takes the scan one listener on or
\* returns
C31_ShutdownReturns ==
  /\ []<>(~InShutdown)
  /\ [](InServe /\ Running => ENABLED Serve(Caller))
  /\ [](InDetach /\ Running => ENABLED Detach(Caller))
  /\ [][Serve(Caller) \/ Detach(Caller) =>
         \/ pc'[Caller] = "idle"
         \/ pc'[Caller] \in {"sv_scan", "dt_scan"} /\ idx'[Caller] = At(Caller) + 1]_vars

\* the scan of a graceful Shutdown is past a listener that was served,
\* detached and closed, and comes to one that ForceShutdown left Closing;
\* a handler runs
C31_Witness ==
  /\ pc[Caller] = "sd_scan" /\ idx[Caller] = 2
  /\ Handling # {}
  /\ lState[listeners[1]] = {"Serving", "Closing", "Detached"}
  /\ hasState(listeners[2], "Closing")

\* the handler of connection c was inside ServeHTTP when the graceful
\* Shutdown was called, and still is
StillExecuting(c) == cPrior[c] = "handling" /\ cStage[c] = "handling"

\* C32: a graceful Shutdown does not return while a handler runs that was
\* inside ServeHTTP, between Add(1) and Done(), when it was called
C32_WaitsForExecutingHandler ==
  [][GracefulReturns => \A c \in Conns : ~StillExecuting(c)']_vars

\* the graceful Shutdown has closed and removed every listener and is held
\* in Wait() by nothing but the handler that ran when it was called
C32_Witness ==
  /\ pc[Caller] = "sd_wait"
  /\ listeners = <<>> /\ wg = 1
  /\ \A o \in Objs : unmanaging[o] = 0
  /\ \E c \in Conns : StillExecuting(c)

\* ---------------------------------------- the locking, one operation a step
LockOp(op, l) == <<[op |-> op, l |-> l]>>
RECURSIVE ConcatTo(_, _)
\* body[1] \o ... \o body[n]: the loop `for _, listener := range l.listeners`
ConcatTo(body, n) == IF n = 0 THEN <<>> ELSE ConcatTo(body, n - 1) \o body[n]
\* l.RLock(); for ... { body }; l.RUnlock()
Scan(body, n) == LockOp("RLock", RegLock) \o ConcatTo(body, n) \o LockOp("RUnlock", RegLock)

\* listeners.unmanage: l.Lock() ... l.Unlock()
unmanageOps == LockOp("Lock", RegLock) \o LockOp("Unlock", RegLock)
\* listeners.manage takes the same lock the same way
manageOps == LockOp("Lock", RegLock) \o LockOp("Unlock", RegLock)
\* listeners.reuse: the locked replacement, then manage when nothing matched
reuseOps(reused) == LockOp("Lock", RegLock) \o LockOp("Unlock", RegLock)
                    \o (IF reused THEN <<>> ELSE manageOps)
\* listener.Close, as if it ran unmanage itself
closeOps_Sync(o) == unmanageOps
\* listener.Close: `go l.manager.unmanage(l)` and no lock of its own
closeOps(o) == LockOp("Go", RegLock)
\* listener.hasState
hasStateOps(o) == LockOp("RLock", StateLock(o)) \o LockOp("RUnlock", StateLock(o))
\* listener.tlsConfigured
tlsConfiguredOps(o) == LockOp("RLock", TLSLock(o)) \o LockOp("RUnlock", TLSLock(o))
\* listener.configureTLS
configureOps(o) == LockOp("Lock", TLSLock(o)) \o LockOp("Unlock", TLSLock(o))

\* listeners.serve and listeners.detach over a registry of n listeners
serveOps(n) ==
  Scan([o \in Objs |-> LockOp("Lock", StateLock(o)) \o LockOp("Unlock", StateLock(o))], n)
\* listeners.shutdown: the listeners in open are not Closing yet and get closed
shutdownOps(n, open) ==
  Scan([o \in Objs |-> LockOp("Lock", StateLock(o))
                       \o (IF o \in open THEN closeOps(o) ELSE <<>>)
                       \o LockOp("Unlock", StateLock(o))], n)
\* listeners.configureTLS: the listeners in idle are neither Serving nor Closing
configureTLSOps(n, idle) ==
  Scan([o \in Objs |-> LockOp("RLock", StateLock(o))
                       \o (IF o \in idle THEN configureOps(o) ELSE <<>>)
                       \o LockOp("RUnlock", StateLock(o))], n)
\* listener.Accept after l.Listener.Accept() returned: the error path reads
\* the state, and http.Serve's deferred Close follows it; the other path
\* reads the TLS configuration
acceptOps(o, failed) ==
  IF failed THEN hasStateOps(o) \o closeOps(o) ELSE tlsConfiguredOps(o)

\* what a call of Listen, AddTLSCertificate, Serve, Shutdown, ForceShutdown
\* or Detach does to the locks
CallOps ==
  {manageOps} \cup {reuseOps(b) : b \in BOOLEAN}
  \cup {serveOps(MaxObj)}
  \cup {shutdownOps(MaxObj, open) : open \in SUBSET Objs}
  \cup {configureTLSOps(MaxObj, idle) : idle \in SUBSET Objs}

lkIdle(a) == lkProg[a] = <<>>
lkOp(a) == Head(lkProg[a])
lkDone(a) == lkProg' = [lkProg EXCEPT ![a] = Tail(@)]
lkRest == <<srvVars, netVars, objVars, connVars, thrVars, pkgVars, sigVars, argVars>>

\* a caller begins a call
lkCall(t) ==
  /\ lkIdle(t)
  /\ \E ops \in CallOps : lkProg' = [lkProg EXCEPT ![t] = ops]
  /\ UNCHANGED <<rw, lkRest>>

\* l.Listener.Accept() returned in an accept loop
lkAccept ==
  /\ lkIdle(AcceptLoop)
  /\ \E o \in Objs, failed \in BOOLEAN :
       lkProg' = [lkProg EXCEPT ![AcceptLoop] = acceptOps(o, failed)]
  /\ UNCHANGED <<rw, lkRest>>

\* RWMutex.RLock: waits while a writer holds the mutex or is inside Lock()
lkRLock(a) ==
  /\ ~lkIdle(a) /\ lkOp(a).op = "RLock"
  /\ rw[lkOp(a).l].w = "none"
  /\ rw' = [rw EXCEPT ![lkOp(a).l].r = @ \cup {a}]
  /\ lkDone(a)
  /\ UNCHANGED lkRest

lkRUnlock(a) ==
  /\ ~lkIdle(a) /\ lkOp(a).op = "RUnlock"
  /\ rw' = [rw EXCEPT ![lkOp(a).l].r = @ \ {a}]
  /\ lkDone(a)
  /\ UNCHANGED lkRest

\* RWMutex.Lock, first half: the writer gets w.w and announces itself, after
\* which no new reader is admitted
lkAnnounce(a) ==
  /\ ~lkIdle(a) /\ lkOp(a).op = "Lock"
  /\ rw[lkOp(a).l].w = "none"
  /\ rw' = [rw EXCEPT ![lkOp(a).l].w = a]
  /\ UNCHANGED <<lkProg, lkRest>>

\* RWMutex.Lock, second half: it returns when the readers have departed
lkLock(a) ==
  /\ ~lkIdle(a) /\ lkOp(a).op = "Lock"
  /\ rw[lkOp(a).l].w = a /\ ~rw[lkOp(a).l].held
  /\ rw[lkOp(a).l].r = {}
  /\ rw' = [rw EXCEPT ![lkOp(a).l].held = TRUE]
  /\ lkDone(a)
  /\ UNCHANGED lkRest

lkUnlock(a) ==
  /\ ~lkIdle(a) /\ lkOp(a).op = "Unlock"
  /\ rw' = [rw EXCEPT ![lkOp(a).l] = [@ EXCEPT !.w = "none", !.held = FALSE]]
  /\ lkDone(a)
  /\ UNCHANGED lkRest

\* `go l.manager.unmanage(l)`: the goroutine is there, the caller goes on
lkGo(a) ==
  /\ ~lkIdle(a) /\ lkOp(a).op = "Go"
  /\ lkProg' = [lkProg EXCEPT ![a] = Tail(@),
                              ![Unmanager] = IF @ = <<>> THEN unmanageOps ELSE @]
  /\ UNCHANGED <<rw, lkRest>>

lkStep(a) ==
  \/ lkRLock(a) \/ lkRUnlock(a)
  \/ lkAnnounce(a) \/ lkLock(a) \/ lkUnlock(a)
  \/ lkGo(a)

NextLock ==
  \/ \E t \in Threads : lkCall(t)
  \/ lkAccept
  \/ \E a \in Actors : lkStep(a)

\* sync.RWMutex hands the mutex to a goroutine that keeps asking for it
\* (pending writers bar new readers, starvation mode bars barging)
LockFairness == \A a \in Actors : SF_vars(lkStep(a))

SpecLock == Init /\ [][NextLock]_vars /\ LockFairness

\* C33: every goroutine that is inside a call gets each mutex it asks for and
\* comes to the end of the call: none waits forever for the registry's
\* RWMutex, a stateMutex or a tlsMutex
C33_NoLockWaitsForever == \A a \in Actors : []<>lkIdle(a)

\* Shutdown's scan holds the registry for reading and the second listener's
\* state, the unmanage goroutine its Close of the first one started is inside
\* Lock() of the registry, and another caller's scan waits behind it
C33_Witness ==
  /\ "t1" \in rw[RegLock].r
  /\ rw[StateLock(2)].w = "t1" /\ rw[StateLock(2)].held
  /\ rw[RegLock].w = Unmanager /\ ~rw[RegLock].held
  /\ ~lkIdle("t2") /\ lkOp("t2") = [op |-> "RLock", l |-> RegLock]

C35_NoOrphanedLoop ==
  \A o \in Objs : loop[o] = "running" => InRegistry(o) \/ hasState(o, "Closing")

\* Listen(a) finds an entry for a in the map ReuseListeners supplied, and
\* builds a listener from its descriptor number or closes it
UsesEntry(a) ==
  /\ reuseListeners[a] # None
  /\ \E t \in Threads : Listen(t, a) \/ ListenError(t, a)

\* C36: an entry of the map supplied through ReuseListeners is used by one
\* Listen at most: no Listen(addr) uses the entry for addr after an earlier
\* Listen(addr) has used it
C36_EntryUsedOnce == [][\A a \in Addrs : UsesEntry(a) => a \notin consumed]_vars

\* a scan of the caller's comes to a listener that is Closing
ScansClosing ==
  /\ Serve(Caller) \/ Detach(Caller) \/ AddTLSCertificate(Caller)
       \/ Shutdown(Caller) \/ ForceShutdown(Caller)
  /\ Len(listeners) > 0
  /\ hasState(listeners[At(Caller)], "Closing")

\* C37: nothing acts on a listener object whose Closing bit is set but its
\* removal from the registry: its state bits stay as they are, no accept
\* loop is started for it, its TLS configuration is not written, no scan
\* closes it, and a Detach that comes to it records nothing
C37_ClosingIsTerminal ==
  [][/\ \A o \in Objs :
          (hasState(o, "Closing") /\ Persists(o)) =>
            /\ lState'[o] = lState[o]
            /\ loop[o] = "none" => loop'[o] = "none"
            /\ lCerts'[o] = lCerts[o] /\ lKey'[tlsConfigOf(o)] = lKey[tlsConfigOf(o)]
            /\ scanCloses'[o] = scanCloses[o]
            /\ lClosed'[o] = lClosed[o]
     /\ (ScansClosing /\ Detach(Caller)) => DetachMapAfter = DetachMapBefore]_vars

\* ForceShutdown left the first listener of the registry Closing before the
\* second one was made; the second one has since been given a certificate,
\* served and detached, and a graceful Shutdown is past the first one: every
\* scan has come to the first one and it is as ForceShutdown left it
C37_Witness ==
  /\ pc[Caller] = "sd_scan" /\ idx[Caller] = 2
  /\ Len(listeners) = 2
  /\ lState[listeners[1]] = {"Closing"}
  /\ loop[listeners[1]] = "none" /\ lCerts[listeners[1]] = 0
  /\ scanCloses[listeners[1]] = 1
  /\ detached[Addr(listeners[1])] = None
  /\ lState[listeners[2]] = {"Serving", "Detached"}
  /\ lCerts[listeners[2]] = 1

\* C38: no serve loop of the signal-channel variant takes the fatal branch:
\* the Accept that ForceShutdown's Close gets out of the block, or that
\* comes after it, returns errShutdownRequested
C38_ForceShutdownNeverPanics == \A i \in Lis : aLi[i].acc # "panicked"

\* the listener a shutdown is at
ShutdownAt(t) == aListeners[aCall[t].idx]

\* C39: a Shutdown that is called while an earlier graceful one is still
\* draining does not get stuck with the registry's lock: whenever it comes
\* to send on a listener's unblock channel, that listener's unblockAccept
\* is there to receive
C39_SecondShutdownNotStuck ==
  \A t \in Threads : aCall[t].pc = "unblock" => aLi[ShutdownAt(t)].dial = "recv"

\* ------------------------------------------ the swap-remove on its own
\* the registries unmanage can find its listener in, and where: up to
\* MaxRegistry entries, the listener at position i
Entries == 1..MaxEntry
Registries == UNION {[1..n -> Entries] : n \in 1..MaxRegistry}
Inputs == {[listeners |-> s, i |-> i] : s \in Registries, i \in 1..MaxRegistry}
InitRemove ==
  /\ Constructed
  /\ swIn \in {in \in Inputs : in.i <= Len(in.listeners)}
  /\ swOut = NoOutput

\* the body of `if li == listener` and the `if len(l.listeners) == 0` after it
removeAt(s, i) ==
  LET left == SwapRemove(s, i) IN
  [listeners |-> left, isNil |-> Len(left) = 0, done |-> TRUE]

Remove ==
  /\ ~swOut.done
  /\ swOut' = removeAt(swIn.listeners, swIn.i)
  /\ UNCHANGED <<swIn, srvVars, netVars, objVars, connVars, thrVars, pkgVars, sigVars, lockVars>>

NextRemove == Remove
SpecRemove == InitRemove /\ [][NextRemove]_vars

\* how often v is in the sequence s
Count(s, v) == Cardinality({j \in 1..Len(s) : s[j] = v})

\* C40: the swap-remove takes the listener it found out of the registry and
\* nothing else: what is left is one shorter and holds every listener as
\* often as before, but the one found, which it holds once less; it is nil
\* when nothing is left
C40_RemovesExactlyTheTarget ==
  swOut.done =>
    LET s == swIn.listeners
        left == swOut.listeners
        target == s[swIn.i] IN
    /\ Len(left) = Len(s) - 1
    /\ \A v \in Entries : Count(left, v) = Count(s, v) - (IF v = target THEN 1 ELSE 0)
    /\ swOut.isNil <=> left = <<>>

\* the listener found was the only one of the registry, at its last position:
\* nothing is left and the registry is nil
C40_Witness ==
  /\ swOut.done
  /\ Len(swIn.listeners) = 1 /\ swIn.i = 1
  /\ swOut.listeners = <<>> /\ swOut.isNil
====
